---- MODULE Spec2Model ----
(***************************************************************************)
(* Model of src/src/main.rs: a wave-function-collapse grid solver run as   *)
(* two Bevy Update systems (collapse_step, refresh_on_r) over a table of   *)
(* Tile components.  One frame runs both systems in either order and then  *)
(* applies the queued commands.                                            *)
(***************************************************************************)
EXTENDS Integers, Sequences, FiniteSets, TLC

\* ------------------------------------------------------------------ bounds
\* Grid width and height (32 x 32 in the source, shrunk for checking).
GRID_W == 3
GRID_H == 2
\* How many calls of collapse_step beyond GRID_W * GRID_H are counted.
ExtraSteps == 2
\* How many cells of a forced grid may differ from a fresh cell.
MaxForced == 2

NumTiles == GRID_W * GRID_H
MaxSteps == NumTiles + ExtraSteps

VARIABLES
    tiles,               \* the Tile components, in table (iteration) order
    commands,            \* deferred commands queued in this frame
    ran,                 \* the Update systems that already ran in this frame
    snapshot,            \* the snapshot taken by the last collapse_step
    entity_to_collapse,  \* the entity selected by the last collapse_step (0: none)
    valid_choices,       \* valid_choices of the last collapse_step
    collapsed_choice,    \* the category chosen by the last collapse_step
    refilled,            \* entities whose emptied domain the last step refilled
    outcome,             \* how the last collapse_step or reset ended
    steps,               \* collapse_step calls on the current grid (saturating)
    discarded,           \* resolved cells in the grid a reset just despawned
                         \* (0 again once a step ran on the new grid)
    grid_w,              \* the width the program was built with
    grid_h               \* the height the program was built with

vars == <<tiles, commands, ran, snapshot, entity_to_collapse, valid_choices,
          collapsed_choice, refilled, outcome, steps, discarded,
          grid_w, grid_h>>

\* ------------------------------------------------------------ tile types
Sand == "Sand"
Water == "Water"
Grass == "Grass"
TileType == {Sand, Water, Grass}

\* vec![TileType::Sand, TileType::Water, TileType::Grass]
AllTypes == <<Sand, Water, Grass>>

Up == "Up"
Down == "Down"
Left == "Left"
Right == "Right"
None == "None"

Systems == {"collapse_step", "refresh_on_r"}

ToSet(s) == {s[k] : k \in 1..Len(s)}

Min(a, b) == IF a < b THEN a ELSE b

\* ------------------------------------------------------------------ setup
\* The tiles the two loops of setup spawn for a width w and a height h, y
\* outer and x inner: none when w or h is 0.
SetupFor(w, h) ==
    [i \in 1..(w * h) |->
        [possible |-> AllTypes, collapsed |-> FALSE,
         x |-> (i - 1) % w, y |-> (i - 1) \div w]]

\* The tiles spawned by setup, y outer and x inner.
setup ==
    [i \in 1..NumTiles |->
        [possible |-> AllTypes, collapsed |-> FALSE,
         x |-> (i - 1) % GRID_W, y |-> (i - 1) \div GRID_W]]

\* --------------------------------------------------------------- geometry
neighbor_coords(x, y) ==
    (IF y + 1 < GRID_H THEN << <<x, y + 1>> >> ELSE <<>>)
    \o (IF y > 0 THEN << <<x, y - 1>> >> ELSE <<>>)
    \o (IF x + 1 < GRID_W THEN << <<x + 1, y>> >> ELSE <<>>)
    \o (IF x > 0 THEN << <<x - 1, y>> >> ELSE <<>>)

\* The first entity of the snapshot at (x, y); 0 stands for Option::None.
entity_at(x, y, snap) ==
    LET hits == {i \in 1..Len(snap) : snap[i].x = x /\ snap[i].y = y}
    IN  IF hits = {} THEN 0 ELSE CHOOSE i \in hits : \A j \in hits : i <= j

\* A mutant: the Right arm forgets to compare the rows.
neighbor_direction_norow(x1, y1, x2, y2) ==
    IF x1 = x2 /\ y1 + 1 = y2 THEN Up
    ELSE IF x1 = x2 /\ y1 = y2 + 1 THEN Down
    ELSE IF x1 + 1 = x2 THEN Right
    ELSE IF x1 = x2 + 1 /\ y1 = y2 THEN Left
    ELSE None

neighbor_direction(x1, y1, x2, y2) ==
    IF x1 = x2 /\ y1 + 1 = y2 THEN Up
    ELSE IF x1 = x2 /\ y1 = y2 + 1 THEN Down
    ELSE IF x1 + 1 = x2 /\ y1 = y2 THEN Right
    ELSE IF x1 = x2 + 1 /\ y1 = y2 THEN Left
    ELSE None

\* A mutant: the rule is a stub that accepts every pair.
allowed_neighbor_any(tile, neighbor, dir) == TRUE

\* A mutant: Water accepts every neighbour, as Sand does.
allowed_neighbor_lax(tile, neighbor, dir) ==
    CASE tile = Water -> TRUE
      [] tile = Sand -> TRUE
      [] tile = Grass -> neighbor \in {Grass, Sand}

\* A mutant: Water no longer accepts Sand.
allowed_neighbor_nosand(tile, neighbor, dir) ==
    CASE tile = Water -> neighbor = Water
      [] tile = Sand -> TRUE
      [] tile = Grass -> neighbor \in {Grass, Sand}

allowed_neighbor(tile, neighbor, dir) ==
    CASE tile = Water -> neighbor \in {Water, Sand}
      [] tile = Sand -> TRUE
      [] tile = Grass -> neighbor \in {Grass, Sand}

\* ---------------------------------------------------------- collapse_step
\* The filter of the candidates: not collapsed and a non-empty domain.
IsCandidate(t) == ~t.collapsed /\ t.possible # <<>>

\* The entities of the candidates, in snapshot order.
Candidates(snap) == {i \in 1..Len(snap) : IsCandidate(snap[i])}

\* A mutant: the early return tests the snapshot, not the candidates.
ReturnsEarly_onempty(snap) == snap = <<>>

\* The early return: there is no candidate.
ReturnsEarly(snap) == Candidates(snap) = {}

\* A mutant: the candidates are not sorted.
SelectEntity_unsorted(snap) ==
    LET c == Candidates(snap)
    IN  IF c = {} THEN 0
        ELSE CHOOSE i \in c : \A j \in c : i <= j

\* candidates[0] after the stable sort by domain length; 0 when there is no
\* candidate, where the indexing panics.
SelectEntity(snap) ==
    LET c == Candidates(snap)
    IN  IF c = {} THEN 0
        ELSE CHOOSE i \in c :
                \A j \in c :
                    \/ Len(snap[i].possible) < Len(snap[j].possible)
                    \/ Len(snap[i].possible) = Len(snap[j].possible) /\ i <= j

\* A mutant: one compatible neighbour is enough (any for all).
ChoiceIsValid_any(snap, e, choice) ==
    LET nc == neighbor_coords(snap[e].x, snap[e].y)
    IN  \E k \in 1..Len(nc) :
            LET nx == nc[k][1]
                ny == nc[k][2]
                neighbor_entity == entity_at(nx, ny, snap)
            IN  IF neighbor_entity # 0
                THEN \E m \in 1..Len(snap[neighbor_entity].possible) :
                        allowed_neighbor(
                            choice,
                            snap[neighbor_entity].possible[m],
                            neighbor_direction(snap[e].x, snap[e].y, nx, ny))
                ELSE TRUE

\* The filter of valid_choices, for the tile e of the snapshot.
ChoiceIsValid(snap, e, choice) ==
    LET nc == neighbor_coords(snap[e].x, snap[e].y)
    IN  \A k \in 1..Len(nc) :
            LET nx == nc[k][1]
                ny == nc[k][2]
                neighbor_entity == entity_at(nx, ny, snap)
            IN  IF neighbor_entity # 0
                THEN \E m \in 1..Len(snap[neighbor_entity].possible) :
                        allowed_neighbor(
                            choice,
                            snap[neighbor_entity].possible[m],
                            neighbor_direction(snap[e].x, snap[e].y, nx, ny))
                ELSE TRUE

ValidChoices(snap, e) ==
    SelectSeq(snap[e].possible, LAMBDA choice : ChoiceIsValid(snap, e, choice))

\* A mutant: the fallback draws from every tile type.
ChoicePool_all(possible, valid) ==
    IF valid = <<>> THEN AllTypes ELSE valid

\* The sequence the choice is drawn from.
ChoicePool(possible, valid) ==
    IF valid = <<>> THEN possible ELSE valid

\* An unwrap of collapse_step that would panic on this snapshot.
Panics(snap, e) ==
    IF e \notin 1..Len(snap)
    THEN TRUE
    ELSE LET nc == neighbor_coords(snap[e].x, snap[e].y)
         IN  \/ \E k \in 1..Len(nc) :
                   /\ entity_at(nc[k][1], nc[k][2], snap) # 0
                   /\ neighbor_direction(snap[e].x, snap[e].y,
                                         nc[k][1], nc[k][2]) = None
             \/ ChoicePool(snap[e].possible, ValidChoices(snap, e)) = <<>>

\* A mutant: the domain of the collapsed tile is cleared, not set.
CollapseTile_cleared(t, choice) ==
    [t EXCEPT !.possible = <<>>, !.collapsed = TRUE]

\* A mutant: the collapsed flag is not set.
CollapseTile_noflag(t, choice) ==
    [t EXCEPT !.possible = <<choice>>]

\* The writes to the selected tile.
CollapseTile(t, choice) ==
    [t EXCEPT !.possible = <<choice>>, !.collapsed = TRUE]

\* A mutant: the domain is recomputed from every tile type.
FilterDomain_fromall(possible, choice, dir) ==
    SelectSeq(AllTypes, LAMBDA n : allowed_neighbor(choice, n, dir))

\* A mutant: the filter keeps the categories the rule rejects.
FilterDomain_negated(possible, choice, dir) ==
    SelectSeq(possible, LAMBDA n : ~allowed_neighbor(choice, n, dir))

\* The domain of a neighbour filtered by the collapsed choice.
FilterDomain(possible, choice, dir) ==
    SelectSeq(possible, LAMBDA n : allowed_neighbor(choice, n, dir))

\* A mutant: the loop does not skip collapsed tiles.
PropagationDir_noskip(snap, e, i) ==
    IF i = e
    THEN None
    ELSE neighbor_direction(snap[e].x, snap[e].y, snap[i].x, snap[i].y)

\* A mutant: propagation reaches the neighbours of the same row only.
PropagationDir_rowonly(snap, e, i) ==
    IF i = e \/ snap[i].collapsed \/ snap[i].y # snap[e].y
    THEN None
    ELSE neighbor_direction(snap[e].x, snap[e].y, snap[i].x, snap[i].y)

\* The direction in which propagation reaches entity i, None when it is skipped.
PropagationDir(snap, e, i) ==
    IF i = e \/ snap[i].collapsed
    THEN None
    ELSE neighbor_direction(snap[e].x, snap[e].y, snap[i].x, snap[i].y)

\* The entities whose filtered domain is empty and is refilled.
Refilled(cur, snap, e, choice) ==
    {i \in 1..Len(snap) :
        /\ PropagationDir(snap, e, i) # None
        /\ FilterDomain(cur[i].possible, choice, PropagationDir(snap, e, i)) = <<>>}

\* A mutant: a neighbour narrowed to one category is marked collapsed.
Propagated_autoresolve(cur, snap, e, choice) ==
    [i \in 1..Len(cur) |->
        IF i = e THEN CollapseTile(cur[i], choice)
        ELSE IF PropagationDir(snap, e, i) = None THEN cur[i]
        ELSE LET f == FilterDomain(cur[i].possible, choice,
                                   PropagationDir(snap, e, i))
             IN  [cur[i] EXCEPT !.possible = IF f = <<>> THEN AllTypes ELSE f,
                                !.collapsed = (Len(f) = 1)]]

\* A mutant: an emptied domain is left empty.
Propagated_norefill(cur, snap, e, choice) ==
    [i \in 1..Len(cur) |->
        IF i = e THEN CollapseTile(cur[i], choice)
        ELSE IF PropagationDir(snap, e, i) = None THEN cur[i]
        ELSE [cur[i] EXCEPT !.possible =
                FilterDomain(cur[i].possible, choice, PropagationDir(snap, e, i))]]

\* The tiles after the collapse of e to choice and the propagation loop.
Propagated(cur, snap, e, choice) ==
    [i \in 1..Len(cur) |->
        IF i = e THEN CollapseTile(cur[i], choice)
        ELSE IF PropagationDir(snap, e, i) = None THEN cur[i]
        ELSE LET f == FilterDomain(cur[i].possible, choice,
                                   PropagationDir(snap, e, i))
             IN  [cur[i] EXCEPT !.possible = IF f = <<>> THEN AllTypes ELSE f]]

\* A mutant: a skipped entity ends the loop (break for continue).
AfterSkip_break(rest) == <<>>

\* What the loop still visits after an entity it skips: continue.
AfterSkip(rest) == rest

\* The propagation loop run entity by entity over the entities of order, each
\* step reading the tile as the steps before left it.
RECURSIVE PropagationLoop(_, _, _, _, _)
PropagationLoop(order, cur, snap, e, choice) ==
    IF order = <<>> THEN cur
    ELSE LET i == Head(order)
             dir == neighbor_direction(snap[e].x, snap[e].y, snap[i].x, snap[i].y)
             f == FilterDomain(cur[i].possible, choice, dir)
         IN  IF i = e \/ snap[i].collapsed
             THEN PropagationLoop(AfterSkip(Tail(order)), cur, snap, e, choice)
             ELSE IF dir = None
             THEN PropagationLoop(Tail(order), cur, snap, e, choice)
             ELSE PropagationLoop(
                      Tail(order),
                      [cur EXCEPT ![i].possible = IF f = <<>> THEN AllTypes ELSE f],
                      snap, e, choice)

CountStep == IF steps < MaxSteps THEN steps + 1 ELSE steps

CollapseStep ==
    /\ "collapse_step" \notin ran
    /\ ran' = ran \cup {"collapse_step"}
    /\ snapshot' = tiles
    /\ steps' = CountStep
    /\ discarded' = 0
    /\ UNCHANGED <<commands, grid_w, grid_h>>
    /\ IF ReturnsEarly(tiles)
       THEN /\ outcome' = "quiescent"
            /\ entity_to_collapse' = 0
            /\ valid_choices' = <<>>
            /\ collapsed_choice' = None
            /\ refilled' = {}
            /\ UNCHANGED tiles
       ELSE LET e == SelectEntity(tiles)
            IN  IF Panics(tiles, e)
                THEN /\ outcome' = "panicked"
                     /\ entity_to_collapse' = e
                     /\ valid_choices' = <<>>
                     /\ collapsed_choice' = None
                     /\ refilled' = {}
                     /\ UNCHANGED tiles
                ELSE LET valid == ValidChoices(tiles, e)
                         pool == ChoicePool(tiles[e].possible, valid)
                     IN  \E k \in 1..Len(pool) :
                            /\ outcome' = "collapsed"
                            /\ entity_to_collapse' = e
                            /\ valid_choices' = valid
                            /\ collapsed_choice' = pool[k]
                            /\ refilled' = Refilled(tiles, tiles, e, pool[k])
                            /\ tiles' = Propagated(tiles, tiles, e, pool[k])

\* ----------------------------------------------------------- refresh_on_r
\* A mutant: the old tiles are not despawned.
RefreshCommands_keep == <<"setup">>

\* The commands queued when R was just pressed.
RefreshCommands == <<"despawn_tiles", "setup">>

RefreshOnR ==
    /\ "refresh_on_r" \notin ran
    /\ ran' = ran \cup {"refresh_on_r"}
    /\ \E just_pressed \in BOOLEAN :
          commands' = IF just_pressed THEN commands \o RefreshCommands
                      ELSE commands
    /\ UNCHANGED <<tiles, snapshot, entity_to_collapse, valid_choices,
                   collapsed_choice, refilled, outcome, steps, discarded,
                   grid_w, grid_h>>

\* The effect of one deferred command on the table of tiles.
ApplyCommand(t, cmd) ==
    CASE cmd = "despawn_tiles" -> <<>>
      [] cmd = "setup" -> t \o SetupFor(grid_w, grid_h)

\* A mutant: only the first queued command is applied.
ApplyCommands_first(t, cmds) ==
    IF cmds = <<>> THEN t ELSE ApplyCommand(t, Head(cmds))

RECURSIVE ApplyCommands(_, _)
ApplyCommands(t, cmds) ==
    IF cmds = <<>> THEN t
    ELSE ApplyCommands(ApplyCommand(t, Head(cmds)), Tail(cmds))

\* The end of the Update schedule: the queued commands are applied.
ApplyDeferred ==
    /\ ran = Systems
    /\ ran' = {}
    /\ commands' = <<>>
    /\ tiles' = ApplyCommands(tiles, commands)
    /\ UNCHANGED <<grid_w, grid_h>>
    /\ IF commands = <<>>
       THEN UNCHANGED <<snapshot, entity_to_collapse, valid_choices,
                        collapsed_choice, refilled, outcome, steps, discarded>>
       ELSE /\ outcome' = "reset"
            /\ steps' = 0
            /\ discarded' = Cardinality({i \in 1..Len(tiles) : tiles[i].collapsed})
            /\ snapshot' = <<>>
            /\ entity_to_collapse' = 0
            /\ valid_choices' = <<>>
            /\ collapsed_choice' = None
            /\ refilled' = {}

\* --------------------------------------------------------- specifications
InitRest ==
    /\ commands = <<>>
    /\ ran = {}
    /\ snapshot = <<>>
    /\ entity_to_collapse = 0
    /\ valid_choices = <<>>
    /\ collapsed_choice = None
    /\ refilled = {}
    /\ outcome = "started"
    /\ steps = 0
    /\ discarded = 0

Init ==
    /\ grid_w = GRID_W
    /\ grid_h = GRID_H
    /\ tiles = setup
    /\ InitRest

Next ==
    \/ CollapseStep
    \/ RefreshOnR
    \/ ApplyDeferred

Spec == Init /\ [][Next]_vars

\* The subsequences of AllTypes: the domains a Vec without duplicates holds.
Domains ==
    {SelectSeq(AllTypes, LAMBDA c : c \in S) : S \in SUBSET TileType}

\* The states of one cell: any domain while unresolved, one category once
\* resolved.
CellStates ==
    {[possible |-> d, collapsed |-> FALSE] : d \in Domains}
    \cup {[possible |-> <<c>>, collapsed |-> TRUE] : c \in TileType}

\* The fresh grid with the cells of F forced to the cell states g gives them.
ForcedGrid(F, g) ==
    [i \in 1..NumTiles |->
        IF i \in F
        THEN [setup[i] EXCEPT !.possible = g[i].possible,
                              !.collapsed = g[i].collapsed]
        ELSE setup[i]]

\* A grid in which at most MaxForced cells were forced to some cell state.
InitForced ==
    /\ grid_w = GRID_W
    /\ grid_h = GRID_H
    /\ \E F \in SUBSET (1..NumTiles) :
          /\ Cardinality(F) <= MaxForced
          /\ \E g \in [F -> CellStates] : tiles = ForcedGrid(F, g)
    /\ InitRest

SpecForced == InitForced /\ [][Next]_vars

\* The program built with GRID_W or GRID_H set to 0, or as it is.
InitDims ==
    /\ grid_w \in {0, GRID_W}
    /\ grid_h \in {0, GRID_H}
    /\ tiles = SetupFor(grid_w, grid_h)
    /\ InitRest

SpecDims == InitDims /\ [][Next]_vars

\* ----------------------------------------------------------------- claims
StepOutcomes == {"collapsed", "quiescent", "panicked"}

\* Two cells one step apart along one axis, by their coordinates.
Adjacent(a, b) ==
    \/ a.x = b.x /\ (a.y = b.y + 1 \/ b.y = a.y + 1)
    \/ a.y = b.y /\ (a.x = b.x + 1 \/ b.x = a.x + 1)

Resolved(t) == {i \in 1..Len(t) : t[i].collapsed}

AllResolved(t) == Len(t) = NumTiles /\ \A i \in 1..Len(t) : t[i].collapsed

\* C1: from a fresh grid and with no reset in between, after k calls of
\* collapse_step exactly min(k, W*H) cells are resolved, so the grid is fully
\* resolved after call W*H, never earlier, and no call fails to progress.
C1_ResolvedInExactlyWHSteps ==
    /\ outcome # "panicked"
    /\ Cardinality(Resolved(tiles)) = Min(steps, NumTiles)

C1_Witness ==
    /\ steps = NumTiles
    /\ outcome = "collapsed"
    /\ AllResolved(tiles)

\* C2: any two axis-adjacent resolved cells satisfy allowed_neighbor: no
\* resolved Water cell is next to a resolved Grass cell.  (The table holds
\* the grid row by row, so an adjacent cell is 1 or GRID_W entries away.)
C2_ResolvedAdjacencyHolds ==
    \A i \in 1..Len(tiles) :
        tiles[i].collapsed
        => \A j \in {i - GRID_W, i - 1, i + 1, i + GRID_W} \cap 1..Len(tiles) :
              (tiles[j].collapsed /\ Adjacent(tiles[i], tiles[j]))
              => /\ Len(tiles[i].possible) = 1 /\ Len(tiles[j].possible) = 1
                 /\ allowed_neighbor(
                        tiles[i].possible[1], tiles[j].possible[1],
                        neighbor_direction(tiles[i].x, tiles[i].y,
                                           tiles[j].x, tiles[j].y))
                 /\ ~(tiles[i].possible[1] = Water /\ tiles[j].possible[1] = Grass)
                 /\ ~(tiles[i].possible[1] = Grass /\ tiles[j].possible[1] = Water)

C2_Witness ==
    /\ AllResolved(tiles)
    /\ \E i, j \in 1..Len(tiles) :
          tiles[i].possible = <<Water>> /\ tiles[j].possible = <<Grass>>

\* C3: a resolved cell holds a single category, and no step changes its
\* category or its collapsed flag until a reset replaces the grid; a step
\* never selects a resolved cell.
C3_ResolvedIsFrozen ==
    [][(~(ran = Systems /\ commands # <<>>))
        => /\ \A i \in 1..Len(tiles) :
                tiles[i].collapsed
                => /\ Len(tiles[i].possible) = 1
                   /\ i <= Len(tiles')
                   /\ tiles'[i] = tiles[i]
           /\ ("collapse_step" \in ran' \ ran /\ outcome' = "collapsed")
                => ~tiles[entity_to_collapse'].collapsed]_vars

\* A resolved Grass neighbour of a cell just collapsed to Water kept its
\* category, which the filter of the propagation would have removed.
C3_Witness ==
    /\ outcome = "collapsed"
    /\ collapsed_choice = Water
    /\ \E i \in 1..Len(snapshot) :
          /\ snapshot[i].collapsed
          /\ snapshot[i].possible = <<Grass>>
          /\ Adjacent(snapshot[i], snapshot[entity_to_collapse])
          /\ tiles[i] = snapshot[i]

\* C4: after a reset every one of the W*H cells is unresolved with the full
\* domain, whatever the grid was before.
C4_ResetYieldsFreshGrid ==
    outcome = "reset"
    => /\ Len(tiles) = NumTiles
       /\ \A i \in 1..Len(tiles) :
             /\ ~tiles[i].collapsed
             /\ ToSet(tiles[i].possible) = TileType
             /\ Len(tiles[i].possible) = 3

\* The reset replaced a fully resolved grid.
C4_Witness ==
    /\ outcome = "reset"
    /\ discarded = NumTiles

\* C5: on a fully resolved grid collapse_step returns without selecting a
\* cell and leaves every domain and flag as it was, call after call.
C5_NoOpWhenResolved ==
    (outcome \in StepOutcomes /\ AllResolved(snapshot))
    => /\ outcome = "quiescent"
       /\ tiles = snapshot

C5_Witness ==
    /\ outcome = "quiescent"
    /\ AllResolved(snapshot)
    /\ steps >= NumTiles + 2

\* C6: a step changes no cell other than the collapsed cell and the cells
\* one step away from it along one axis, inside the grid.
C6_OnlyNeighboursChange ==
    outcome = "collapsed"
    => /\ Len(tiles) = Len(snapshot)
       /\ \A i \in 1..Len(snapshot) :
             (i # entity_to_collapse
              /\ ~Adjacent(snapshot[i], snapshot[entity_to_collapse]))
             => tiles[i] = snapshot[i]

\* A neighbour was narrowed while a diagonal cell and the cell on the
\* opposite edge of the row, both unresolved with Grass, kept their domains.
C6_Witness ==
    /\ outcome = "collapsed"
    /\ collapsed_choice = Water
    /\ snapshot[entity_to_collapse].x = 0
    /\ \E i \in 1..Len(snapshot) :
          /\ Adjacent(snapshot[i], snapshot[entity_to_collapse])
          /\ tiles[i].possible # snapshot[i].possible
    /\ \E i, j \in 1..Len(snapshot) :
          /\ snapshot[i].x = 1
          /\ snapshot[i].y # snapshot[entity_to_collapse].y
          /\ snapshot[j].x = GRID_W - 1
          /\ snapshot[j].y = snapshot[entity_to_collapse].y
          /\ ~snapshot[i].collapsed /\ ~snapshot[j].collapsed
          /\ Grass \in ToSet(tiles[i].possible)
          /\ Grass \in ToSet(tiles[j].possible)

\* C7: the domain of a cell that was unresolved before a step has gained no
\* category and is no longer after it, unless the step refilled it because
\* the filter emptied it, and then it holds every category.
C7_DomainsDoNotGrow ==
    outcome = "collapsed"
    => /\ Len(tiles) = Len(snapshot)
       /\ \A i \in 1..Len(snapshot) :
             ~snapshot[i].collapsed
             => IF i \in refilled
                THEN /\ ToSet(tiles[i].possible) = TileType
                     /\ Len(tiles[i].possible) = 3
                ELSE /\ ToSet(tiles[i].possible) \subseteq ToSet(snapshot[i].possible)
                     /\ Len(tiles[i].possible) <= Len(snapshot[i].possible)

\* One neighbour was refilled from a narrowed domain, another was narrowed.
C7_Witness ==
    /\ outcome = "collapsed"
    /\ \E i \in refilled :
          /\ snapshot[i].possible # <<>>
          /\ Len(tiles[i].possible) > Len(snapshot[i].possible)
    /\ \E i \in 1..Len(snapshot) :
          /\ i # entity_to_collapse
          /\ Len(tiles[i].possible) < Len(snapshot[i].possible)

\* C8: a step turns collapsed from false to true for the selected cell only;
\* a neighbour narrowed to a single category stays unresolved.
C8_SingleCollapsePerStep ==
    outcome \in StepOutcomes
    => /\ Len(tiles) = Len(snapshot)
       /\ {i \in 1..Len(snapshot) : ~snapshot[i].collapsed /\ tiles[i].collapsed}
            = IF outcome = "collapsed" THEN {entity_to_collapse} ELSE {}

\* A neighbour was narrowed to one category by this step and is unresolved.
C8_Witness ==
    /\ outcome = "collapsed"
    /\ \E i \in 1..Len(snapshot) :
          /\ i # entity_to_collapse
          /\ Adjacent(snapshot[i], snapshot[entity_to_collapse])
          /\ Len(snapshot[i].possible) > 1
          /\ Len(tiles[i].possible) = 1
          /\ ~tiles[i].collapsed

\* C9: after a step that collapses a cell to Water, no neighbour of that cell
\* has Grass in its domain, and each keeps the Sand and the Water it had.
C9_WaterRemovesGrass ==
    (outcome = "collapsed" /\ collapsed_choice = Water)
    => \A i \in 1..Len(snapshot) :
          Adjacent(snapshot[i], snapshot[entity_to_collapse])
          => /\ Grass \notin ToSet(tiles[i].possible)
             /\ Sand \in ToSet(snapshot[i].possible)
                  => Sand \in ToSet(tiles[i].possible)
             /\ Water \in ToSet(snapshot[i].possible)
                  => Water \in ToSet(tiles[i].possible)

\* A neighbour with the full domain lost Grass and kept Sand and Water.
C9_Witness ==
    /\ outcome = "collapsed"
    /\ collapsed_choice = Water
    /\ \E i \in 1..Len(snapshot) :
          /\ Adjacent(snapshot[i], snapshot[entity_to_collapse])
          /\ snapshot[i].possible = AllTypes
          /\ tiles[i].possible = <<Sand, Water>>

\* C10: from any grid, a step that finds an unresolved cell with a non-empty
\* domain does not panic and resolves the selected cell to a category of the
\* domain that cell had before the step, also when valid_choices is empty.
C10_FallbackStillResolves ==
    /\ outcome # "panicked"
    /\ (outcome \in StepOutcomes
        /\ \E i \in 1..Len(snapshot) :
              ~snapshot[i].collapsed /\ snapshot[i].possible # <<>>)
       => /\ outcome = "collapsed"
          /\ entity_to_collapse \in 1..Len(snapshot)
          /\ ~snapshot[entity_to_collapse].collapsed
          /\ collapsed_choice \in ToSet(snapshot[entity_to_collapse].possible)
          /\ tiles[entity_to_collapse].possible = <<collapsed_choice>>
          /\ tiles[entity_to_collapse].collapsed

\* The selected cell had one category, which the single category of a
\* resolved neighbour does not allow, and it was resolved to that category.
C10_Witness ==
    /\ outcome = "collapsed"
    /\ valid_choices = <<>>
    /\ snapshot[entity_to_collapse].possible = <<Water>>
    /\ tiles[entity_to_collapse].possible = <<Water>>
    /\ tiles[entity_to_collapse].collapsed
    /\ \E i \in 1..Len(snapshot) :
          /\ Adjacent(snapshot[i], snapshot[entity_to_collapse])
          /\ snapshot[i].collapsed
          /\ snapshot[i].possible = <<Grass>>

\* C11: in every state reached from a fresh grid no cell, resolved or not,
\* has an empty domain, so no unresolved cell is skipped by the selection for
\* ever.
C11_NoEmptyDomain ==
    /\ \A i \in 1..Len(tiles) : tiles[i].possible # <<>>
    /\ \A i \in 1..Len(snapshot) : snapshot[i].possible # <<>>

\* Propagation narrowed an unresolved neighbour next to a resolved Grass cell.
C11_Witness ==
    /\ outcome = "collapsed"
    /\ collapsed_choice = Grass
    /\ \E i \in 1..Len(snapshot) :
          /\ Adjacent(snapshot[i], snapshot[entity_to_collapse])
          /\ ~tiles[i].collapsed
          /\ snapshot[i].possible = AllTypes
          /\ tiles[i].possible = <<Sand, Grass>>

\* C12: a grid with a width or a height of 0 is refused when it is created,
\* so collapse_step never runs on it, not even as a quiet no-op.
C12_ZeroSizeFailsFast ==
    (grid_w = 0 \/ grid_h = 0) => outcome \notin StepOutcomes

\* C13: the cell a step collapses is unresolved with a non-empty domain, no
\* such cell has a smaller domain, and no such cell with a domain of the same
\* size comes earlier in the table: the grid determines the cell.
C13_SelectsFirstSmallestDomain ==
    /\ outcome = "collapsed"
       => /\ entity_to_collapse \in 1..Len(snapshot)
          /\ ~snapshot[entity_to_collapse].collapsed
          /\ snapshot[entity_to_collapse].possible # <<>>
          /\ \A j \in 1..Len(snapshot) :
                (~snapshot[j].collapsed /\ snapshot[j].possible # <<>>)
                => \/ Len(snapshot[entity_to_collapse].possible)
                        < Len(snapshot[j].possible)
                   \/ /\ Len(snapshot[entity_to_collapse].possible)
                           = Len(snapshot[j].possible)
                      /\ entity_to_collapse <= j
    /\ outcome = "quiescent"
       => \A j \in 1..Len(snapshot) :
             snapshot[j].collapsed \/ snapshot[j].possible = <<>>

\* The selected cell was preferred to an earlier cell with a larger domain
\* and to an earlier unresolved cell with an empty domain, and a later cell
\* tied with it.
C13_Witness ==
    /\ outcome = "collapsed"
    /\ \E j, k, m \in 1..Len(snapshot) :
          /\ j < entity_to_collapse
          /\ ~snapshot[j].collapsed
          /\ Len(snapshot[j].possible) > Len(snapshot[entity_to_collapse].possible)
          /\ k > entity_to_collapse
          /\ ~snapshot[k].collapsed
          /\ Len(snapshot[k].possible) = Len(snapshot[entity_to_collapse].possible)
          /\ m < entity_to_collapse
          /\ ~snapshot[m].collapsed
          /\ snapshot[m].possible = <<>>

\* Every cell next to the selected cell had, before the step, a category
\* that c allows in its direction.
FitsNeighbours(c) ==
    \A i \in 1..Len(snapshot) :
        Adjacent(snapshot[i], snapshot[entity_to_collapse])
        => \E k \in 1..Len(snapshot[i].possible) :
              allowed_neighbor(
                  c, snapshot[i].possible[k],
                  neighbor_direction(
                      snapshot[entity_to_collapse].x,
                      snapshot[entity_to_collapse].y,
                      snapshot[i].x, snapshot[i].y))

\* C14: when some category of the selected cell's domain fits every in-bounds
\* neighbour (resolved or not, by its domain before the step), the chosen
\* category fits them all; a missing neighbour constrains nothing.
C14_ChoicePassesFilter ==
    (/\ outcome = "collapsed"
     /\ \E k \in 1..Len(snapshot[entity_to_collapse].possible) :
           FitsNeighbours(snapshot[entity_to_collapse].possible[k]))
    => FitsNeighbours(collapsed_choice)

\* The filter removed Grass because of a resolved Water neighbour, while an
\* unresolved neighbour with Grass alone would have accepted it.
C14_Witness ==
    /\ outcome = "collapsed"
    /\ snapshot[entity_to_collapse].possible = AllTypes
    /\ valid_choices = <<Sand, Water>>
    /\ \E i, j \in 1..Len(snapshot) :
          /\ Adjacent(snapshot[i], snapshot[entity_to_collapse])
          /\ Adjacent(snapshot[j], snapshot[entity_to_collapse])
          /\ snapshot[i].collapsed
          /\ snapshot[i].possible = <<Water>>
          /\ ~snapshot[j].collapsed
          /\ Grass \in ToSet(snapshot[j].possible)

\* The categories of cell i's domain before the step that the chosen category
\* allows in the direction from the collapsed cell to i.
Kept(i) ==
    {n \in ToSet(snapshot[i].possible) :
        allowed_neighbor(
            collapsed_choice, n,
            neighbor_direction(
                snapshot[entity_to_collapse].x, snapshot[entity_to_collapse].y,
                snapshot[i].x, snapshot[i].y))}

\* C15: after a step, the domain of every unresolved in-bounds neighbour of
\* the collapsed cell is the part of its former domain the chosen category
\* allows, or every category when that part is empty; it is never empty.
C15_PropagationFiltersOrRefills ==
    outcome = "collapsed"
    => \A i \in 1..Len(snapshot) :
          (Adjacent(snapshot[i], snapshot[entity_to_collapse])
           /\ ~snapshot[i].collapsed)
          => /\ tiles[i].possible # <<>>
             /\ ToSet(tiles[i].possible)
                  = IF Kept(i) = {} THEN TileType ELSE Kept(i)
             /\ Len(tiles[i].possible) = Cardinality(ToSet(tiles[i].possible))

\* A neighbour holding Grass alone was refilled by a collapse to Water, and a
\* neighbour with every category lost Grass.
C15_Witness ==
    /\ outcome = "collapsed"
    /\ collapsed_choice = Water
    /\ \E i, j \in 1..Len(snapshot) :
          /\ Adjacent(snapshot[i], snapshot[entity_to_collapse])
          /\ ~snapshot[i].collapsed
          /\ snapshot[i].possible = <<Grass>>
          /\ tiles[i].possible = AllTypes
          /\ Adjacent(snapshot[j], snapshot[entity_to_collapse])
          /\ ~snapshot[j].collapsed
          /\ snapshot[j].possible = AllTypes
          /\ tiles[j].possible = <<Sand, Water>>

\* Exactly one cell for each coordinate of the grid, and no other cell.
WellFormed(t) ==
    /\ Len(t) = NumTiles
    /\ \A x \in 0..(GRID_W - 1), y \in 0..(GRID_H - 1) :
          Cardinality({i \in 1..Len(t) : t[i].x = x /\ t[i].y = y}) = 1

\* C16: the grid holds exactly one cell per coordinate in every state, so in
\* every snapshot a step takes, also in the frame of a reset request; and the
\* snapshot of the k-th step on a grid is that grid after k - 1 collapses, all
\* of one generation.
C16_ResetIsAtomic ==
    /\ WellFormed(tiles)
    /\ outcome \in StepOutcomes
       => /\ WellFormed(snapshot)
          /\ Cardinality(Resolved(snapshot)) = Min(steps - 1, NumTiles)

\* A reset is queued, collapse_step is the system still to run in this frame
\* and the grid it will read is the old one, partly resolved.
C16_Witness ==
    /\ ran = {"refresh_on_r"}
    /\ commands # <<>>
    /\ WellFormed(tiles)
    /\ Resolved(tiles) # {}
    /\ Resolved(tiles) # 1..NumTiles

\* The cells next to the selected cell, by their coordinates.
NeighboursOfSelected ==
    {i \in 1..Len(snapshot) :
        Adjacent(snapshot[i], snapshot[entity_to_collapse])}

\* The orders in which the cells of K can be visited.
Orders(K) ==
    {o \in [1..Cardinality(K) -> K] :
        \A a, b \in 1..Cardinality(K) : a # b => o[a] # o[b]}

\* C17: the grid a step leaves is the one the propagation loop computes from
\* the snapshot and the collapsed tile in whatever order it visits the
\* neighbours: no write of the step is read by another part of it.
C17_OrderIndependent ==
    outcome = "collapsed"
    => \A o \in Orders(NeighboursOfSelected) :
          PropagationLoop(
              o,
              [snapshot EXCEPT ![entity_to_collapse] =
                  [@ EXCEPT !.possible = <<collapsed_choice>>, !.collapsed = TRUE]],
              snapshot, entity_to_collapse, collapsed_choice) = tiles

\* Three neighbours were visited: a resolved one was skipped, one was
\* narrowed and one was refilled.
C17_Witness ==
    /\ outcome = "collapsed"
    /\ \E i, j, k \in NeighboursOfSelected :
          /\ snapshot[i].collapsed
          /\ ~snapshot[j].collapsed
          /\ Len(tiles[j].possible) < Len(snapshot[j].possible)
          /\ k \in refilled

\* C18: from a fresh grid the domain of every unresolved cell contains Sand,
\* and no step refills a domain the filter emptied.
C18_SandAlwaysPossible ==
    /\ \A i \in 1..Len(tiles) :
          ~tiles[i].collapsed => Sand \in ToSet(tiles[i].possible)
    /\ refilled = {}

\* A step that chose Water filtered a neighbour that was already narrowed
\* to two categories, and Sand is still among them.
C18_Witness ==
    /\ outcome = "collapsed"
    /\ collapsed_choice = Water
    /\ \E i \in NeighboursOfSelected :
          /\ ~snapshot[i].collapsed
          /\ Len(snapshot[i].possible) = 2
          /\ Sand \in ToSet(tiles[i].possible)

\* C19: in every step taken from a fresh grid valid_choices is not empty and
\* the chosen category is one of them: the fallback to the unfiltered domain
\* is not taken.
C19_FallbackNeverTaken ==
    outcome = "collapsed"
    => /\ valid_choices # <<>>
       /\ collapsed_choice \in ToSet(valid_choices)

\* A step selected a cell with a resolved Water neighbour and an unresolved
\* neighbour, and chose Water from its two valid categories.
C19_Witness ==
    /\ outcome = "collapsed"
    /\ valid_choices = <<Sand, Water>>
    /\ collapsed_choice = Water
    /\ \E i, j \in NeighboursOfSelected :
          /\ snapshot[i].collapsed
          /\ snapshot[i].possible = <<Water>>
          /\ ~snapshot[j].collapsed

\* The categories every resolved neighbour of cell i accepts next to it.
AcceptedByResolvedNeighbours(i) ==
    {n \in TileType :
        \A j \in {i - GRID_W, i - 1, i + 1, i + GRID_W} \cap 1..Len(tiles) :
           (tiles[j].collapsed /\ Adjacent(tiles[j], tiles[i]))
           => allowed_neighbor(
                  tiles[j].possible[1], n,
                  neighbor_direction(tiles[j].x, tiles[j].y,
                                     tiles[i].x, tiles[i].y))}

\* C20: from a fresh grid the domain of every unresolved cell is exactly the
\* set of categories that each of its resolved neighbours accepts, the full
\* set when it has no resolved neighbour.
C20_DomainsAreExact ==
    \A i \in 1..Len(tiles) :
       ~tiles[i].collapsed
       => ToSet(tiles[i].possible) = AcceptedByResolvedNeighbours(i)

\* An unresolved cell has a resolved Sand and a resolved Water neighbour and
\* is left with what Water accepts.
C20_Witness ==
    \E i, j, k \in 1..Len(tiles) :
       /\ ~tiles[i].collapsed
       /\ tiles[i].possible = <<Sand, Water>>
       /\ Adjacent(tiles[j], tiles[i])
       /\ Adjacent(tiles[k], tiles[i])
       /\ tiles[j].collapsed /\ tiles[j].possible = <<Sand>>
       /\ tiles[k].collapsed /\ tiles[k].possible = <<Water>>

====
